---------------------------- MODULE Spec2Model ----------------------------
(***************************************************************************)
(* A model of scripts/notify.py: one run of the GitHub -> Discord          *)
(* notification relay.  Python strings are TLA+ strings; the string        *)
(* functions the script uses (strip, lower, replace, title, slicing,       *)
(* re.findall, base64.b64decode, json.loads) and the command-line parser   *)
(* (argparse) are computed character by character.                         *)
(***************************************************************************)
EXTENDS Integers, Sequences, FiniteSets, TLC

(***************************************************************************)
(* Characters and strings                                                  *)
(***************************************************************************)
Char(s, i) == SubSeq(s, i, i)

LowerAlphabet == "abcdefghijklmnopqrstuvwxyz"
UpperAlphabet == "ABCDEFGHIJKLMNOPQRSTUVWXYZ"
Digits == "0123456789"

\* str.find for a single character: the first 1-based position of c in s, or 0.
IndexIn(c, s) ==
    IF \E i \in 1..Len(s) : Char(s, i) = c
    THEN CHOOSE i \in 1..Len(s) : Char(s, i) = c /\ \A j \in 1..(i - 1) : Char(s, j) # c
    ELSE 0

CharsOf(s) == {Char(s, i) : i \in 1..Len(s)}
LowerChars == CharsOf(LowerAlphabet)
UpperChars == CharsOf(UpperAlphabet)
DigitChars == CharsOf(Digits)

IsLower(c) == c \in LowerChars
IsUpper(c) == c \in UpperChars
IsDigit(c) == c \in DigitChars
IsCased(c) == IsLower(c) \/ IsUpper(c)

LowerChar(c) == IF IsUpper(c) THEN Char(LowerAlphabet, IndexIn(c, UpperAlphabet)) ELSE c
UpperChar(c) == IF IsLower(c) THEN Char(UpperAlphabet, IndexIn(c, LowerAlphabet)) ELSE c

\* The concatenation F(lo) \o ... \o F(hi), built by halving the range.
RECURSIVE JoinRange(_, _, _)
JoinRange(F(_), lo, hi) ==
    IF lo > hi THEN ""
    ELSE IF lo = hi THEN F(lo)
    ELSE LET mid == (lo + hi) \div 2
         IN  JoinRange(F, lo, mid) \o JoinRange(F, mid + 1, hi)

MapChars(Op(_), s) == JoinRange(LAMBDA i : Op(Char(s, i)), 1, Len(s))

\* The least position j >= i of s whose character satisfies Stop, or Len(s) + 1.
FirstAt(s, i, Stop(_)) ==
    CHOOSE j \in i..(Len(s) + 1) :
        /\ j = Len(s) + 1 \/ Stop(Char(s, j))
        /\ \A k \in i..(j - 1) : ~Stop(Char(s, k))

\* str.lower()
Lower(s) == MapChars(LowerChar, s)

\* str.replace('_', ' ')
UnderscoreToSpace(c) == IF c = "_" THEN " " ELSE c
ReplaceUnderscores(s) == MapChars(UnderscoreToSpace, s)

\* str.title(): a cased character is upper-cased when it follows an uncased
\* character (or starts the string) and lower-cased otherwise.
TitleChar(s, i) ==
    IF i > 1 /\ IsCased(Char(s, i - 1)) THEN LowerChar(Char(s, i)) ELSE UpperChar(Char(s, i))
Title(s) == JoinRange(LAMBDA i : TitleChar(s, i), 1, Len(s))

\* str.strip() for the whitespace the modelled inputs contain
Whitespace == {" ", "\t", "\n", "\r"}
IsSpace(c) == c \in Whitespace
NotSpace(c) == ~IsSpace(c)
Strip(s) ==
    LET first == FirstAt(s, 1, NotSpace)
        last == IF first > Len(s) THEN first - 1
                ELSE CHOOSE j \in first..Len(s) :
                        /\ NotSpace(Char(s, j))
                        /\ \A k \in (j + 1)..Len(s) : IsSpace(Char(s, k))
    IN  SubSeq(s, first, last)

Range(seq) == {seq[i] : i \in 1..Len(seq)}

\* The elements of a set of integers, in increasing order
SortedSeq(S) ==
    LET before == [p \in S |-> Cardinality({q \in S : q < p})]
    IN  [k \in 1..Cardinality(S) |-> CHOOSE p \in S : before[p] = k - 1]

(***************************************************************************)
(* base64.b64decode(s) (binascii.a2b_base64, non-strict): characters       *)
(* outside the alphabet are skipped, a sufficient run of '=' ends the      *)
(* input, and an unfinished quad is an error.  The result is a sequence of *)
(* byte values.                                                            *)
(***************************************************************************)
B64Alphabet == "ABCDEFGHIJKLMNOPQRSTUVWXYZabcdefghijklmnopqrstuvwxyz0123456789+/"

DecodeError == [ok |-> FALSE, v |-> <<>>]
Decoded(v) == [ok |-> TRUE, v |-> v]

B64Chars == CharsOf(B64Alphabet)
B64Value == [c \in B64Chars |-> IndexIn(c, B64Alphabet) - 1]
IsB64(c) == c \in B64Chars

\* The state of the decoder's scan when it reads position i: quad_pos is the
\* number of alphabet characters read so far modulo 4, pads the number of '='
\* read since the last of them.
QuadPos(s, i) == Cardinality({k \in 1..(i - 1) : IsB64(Char(s, k))}) % 4
Pads(s, i) ==
    Cardinality({k \in 1..i : /\ Char(s, k) = "="
                              /\ \A m \in k..i : ~IsB64(Char(s, m))})

\* "A pad sequence means we should not parse more input"
PadEnds(s, i) ==
    Char(s, i) = "=" /\ QuadPos(s, i) >= 2 /\ QuadPos(s, i) + Pads(s, i) >= 4

A2bBase64(s) ==
    LET ends == {i \in 1..Len(s) : PadEnds(s, i)}
        stop == IF ends = {} THEN Len(s) + 1
                ELSE CHOOSE i \in ends : \A j \in ends : i <= j
        at == {i \in 1..(stop - 1) : IsB64(Char(s, i))}
        n == Cardinality(at)
        order == SortedSeq(at)
        \* the 6-bit values read, in order
        d == [k \in 1..n |-> B64Value[Char(s, order[k])]]
        nbytes == (n \div 4) * 3 + (IF (n % 4) = 0 THEN 0 ELSE (n % 4) - 1)
        byte(k) ==
            LET g == 4 * ((k - 1) \div 3)
            IN  CASE (k - 1) % 3 = 0 -> (d[g + 1] * 4) + (d[g + 2] \div 16)
                  [] (k - 1) % 3 = 1 -> ((d[g + 2] % 16) * 16) + (d[g + 3] \div 4)
                  [] OTHER -> ((d[g + 3] % 4) * 64) + d[g + 4]
    IN  IF ends = {} /\ (n % 4) # 0 THEN DecodeError
        ELSE Decoded([k \in 1..nbytes |-> byte(k)])

B64Decode(s) == A2bBase64(s)

(***************************************************************************)
(* bytes.decode("utf-8").  Bytes 32..126 are the printable ASCII           *)
(* characters and 9, 10, 13 the usual whitespace.  Every other byte is     *)
(* reported as a decoding error: the modelled inputs contain, beside       *)
(* ASCII text, only the byte 0xFF, which no UTF-8 text contains.  (A TLA+  *)
(* string cannot hold the grave accent, byte 96: the table has a blank     *)
(* in its place and the byte is not among the modelled inputs.)            *)
(***************************************************************************)
AsciiPrintable ==
    " !\"#$%&'()*+,-./0123456789:;<=>?@ABCDEFGHIJKLMNOPQRSTUVWXYZ[\\]^_ abcdefghijklmnopqrstuvwxyz{|}~"

ByteIsText(b) == (b >= 32 /\ b <= 126 /\ b # 96) \/ b \in {9, 10, 13}
ByteChar(b) ==
    CASE b = 9 -> "\t"
      [] b = 10 -> "\n"
      [] b = 13 -> "\r"
      [] OTHER -> Char(AsciiPrintable, b - 31)

BytesText(bytes) == JoinRange(LAMBDA i : ByteChar(bytes[i]), 1, Len(bytes))

Utf8Decode(bytes) ==
    IF \A i \in 1..Len(bytes) : ByteIsText(bytes[i])
    THEN Decoded(BytesText(bytes))
    ELSE DecodeError

(***************************************************************************)
(* json.loads(text).  A JSON value is a record [t, v]:                     *)
(*   "str" with the text, "num" with the integer, "lit" with "true",       *)
(*   "false" or "null", "arr" with the sequence of its items, and "obj"    *)
(*   with the sequence of its [k, v] pairs, a repeated key keeping its     *)
(*   place and taking the later value, as a Python dict does.              *)
(* Modelled grammar: objects, arrays, strings without escapes, integers    *)
(* and the three literals, with JSON whitespace; a backslash, a fraction   *)
(* or an exponent is outside the modelled inputs and is reported as a      *)
(* parse error.                                                            *)
(***************************************************************************)
JStr(x) == [t |-> "str", v |-> x]
JNum(n) == [t |-> "num", v |-> n]
JLit(x) == [t |-> "lit", v |-> x]
JArr(items) == [t |-> "arr", v |-> items]
JObj(pairs) == [t |-> "obj", v |-> pairs]

ParseError == [ok |-> FALSE, v |-> JLit("null"), pos |-> 0]
Parsed(v, pos) == [ok |-> TRUE, v |-> v, pos |-> pos]

SkipWs(s, i) == IF i > Len(s) THEN i ELSE FirstAt(s, i, NotSpace)

StartsWith(s, i, word) ==
    i + Len(word) - 1 <= Len(s) /\ SubSeq(s, i, i + Len(word) - 1) = word

\* py_scanstring, strict: i is the position after the opening quote
EndsChunk(c) == c \in {"\"", "\\", "\t", "\n", "\r"}
ScanString(s, i) ==
    IF i > Len(s) THEN ParseError
    ELSE LET j == FirstAt(s, i, EndsChunk)
         IN  IF j <= Len(s) /\ Char(s, j) = "\""
             THEN Parsed(JStr(SubSeq(s, i, j - 1)), j + 1)
             ELSE ParseError

NotDigit(c) == ~IsDigit(c)
ScanDigits(s, i) == IF i > Len(s) THEN i ELSE FirstAt(s, i, NotDigit)

RECURSIVE DigitsValue(_, _, _, _)
DigitsValue(s, i, j, acc) ==
    IF i >= j THEN acc
    ELSE DigitsValue(s, i + 1, j, acc * 10 + IndexIn(Char(s, i), Digits) - 1)

\* NUMBER_RE, integer part: -?(0|[1-9][0-9]*)
ScanNumber(s, i) ==
    LET neg == i <= Len(s) /\ Char(s, i) = "-"
        d == IF neg THEN i + 1 ELSE i
        e == IF d <= Len(s) /\ Char(s, d) = "0" THEN d + 1 ELSE ScanDigits(s, d)
    IN  IF e = d \/ (e <= Len(s) /\ Char(s, e) \in {".", "e", "E"}) THEN ParseError
        ELSE Parsed(JNum(IF neg THEN 0 - DigitsValue(s, d, e, 0)
                                ELSE DigitsValue(s, d, e, 0)), e)

\* dict item assignment on the pair sequence
RECURSIVE DictSet(_, _, _)
DictSet(pairs, k, v) ==
    IF pairs = <<>> THEN <<[k |-> k, v |-> v]>>
    ELSE IF Head(pairs).k = k THEN <<[k |-> k, v |-> v]>> \o Tail(pairs)
    ELSE <<Head(pairs)>> \o DictSet(Tail(pairs), k, v)

RECURSIVE ScanOnce(_, _)
RECURSIVE ScanMembers(_, _, _)
RECURSIVE ScanElements(_, _, _)

\* JSONObject, after '{' and whitespace: i is where a key must start
ScanMembers(s, i, pairs) ==
    IF i > Len(s) \/ Char(s, i) # "\"" THEN ParseError
    ELSE LET key == ScanString(s, i + 1)
         IN  IF ~key.ok THEN ParseError
             ELSE LET c == SkipWs(s, key.pos)
                  IN  IF c > Len(s) \/ Char(s, c) # ":" THEN ParseError
                      ELSE LET val == ScanOnce(s, SkipWs(s, c + 1))
                           IN  IF ~val.ok THEN ParseError
                               ELSE LET e == SkipWs(s, val.pos)
                                        now == DictSet(pairs, key.v.v, val.v)
                                    IN  IF e > Len(s) THEN ParseError
                                        ELSE IF Char(s, e) = "}" THEN Parsed(JObj(now), e + 1)
                                        ELSE IF Char(s, e) = ","
                                             THEN ScanMembers(s, SkipWs(s, e + 1), now)
                                        ELSE ParseError

\* JSONArray, after '[' and whitespace: i is where an item must start
ScanElements(s, i, items) ==
    LET val == ScanOnce(s, i)
    IN  IF ~val.ok THEN ParseError
        ELSE LET e == SkipWs(s, val.pos)
                 now == Append(items, val.v)
             IN  IF e > Len(s) THEN ParseError
                 ELSE IF Char(s, e) = "]" THEN Parsed(JArr(now), e + 1)
                 ELSE IF Char(s, e) = "," THEN ScanElements(s, SkipWs(s, e + 1), now)
                 ELSE ParseError

\* scanner.py_make_scanner._scan_once
ScanOnce(s, i) ==
    IF i > Len(s) THEN ParseError
    ELSE LET c == Char(s, i)
         IN  CASE c = "\"" -> ScanString(s, i + 1)
               [] c = "{" ->
                    LET j == SkipWs(s, i + 1)
                    IN  IF j <= Len(s) /\ Char(s, j) = "}" THEN Parsed(JObj(<<>>), j + 1)
                        ELSE ScanMembers(s, j, <<>>)
               [] c = "[" ->
                    LET j == SkipWs(s, i + 1)
                    IN  IF j <= Len(s) /\ Char(s, j) = "]" THEN Parsed(JArr(<<>>), j + 1)
                        ELSE ScanElements(s, j, <<>>)
               [] c = "n" /\ StartsWith(s, i, "null") -> Parsed(JLit("null"), i + 4)
               [] c = "t" /\ StartsWith(s, i, "true") -> Parsed(JLit("true"), i + 4)
               [] c = "f" /\ StartsWith(s, i, "false") -> Parsed(JLit("false"), i + 5)
               [] c = "-" \/ IsDigit(c) -> ScanNumber(s, i)
               [] OTHER -> ParseError

\* JSONDecoder.decode: one value, whitespace around it, nothing after it
JsonLoads(s) ==
    LET r == ScanOnce(s, SkipWs(s, 1))
    IN  IF r.ok /\ SkipWs(s, r.pos) = Len(s) + 1 THEN Decoded(r.v) ELSE DecodeError

\* Python truth value of a parsed JSON value
Truthy(j) ==
    CASE j.t = "str" -> j.v # ""
      [] j.t = "num" -> j.v # 0
      [] j.t = "lit" -> j.v = "true"
      [] OTHER -> j.v # <<>>

\* dict.get(key): the value, or None (JSON null)
RECURSIVE PairsGet(_, _)
PairsGet(pairs, key) ==
    IF pairs = <<>> THEN JLit("null")
    ELSE IF Head(pairs).k = key THEN Head(pairs).v
    ELSE PairsGet(Tail(pairs), key)

(***************************************************************************)
(* Program constants                                                       *)
(***************************************************************************)
COLORS ==
    [OPENED |-> 5763719, MERGED |-> 10181046, CLOSED |-> 15548997, INFO |-> 3447003,
     COMMENT |-> 16776960, APPROVED |-> 5763719, CHANGES |-> 15548997]

PreviewLen == 200

DmUrl == "https://discord.com/api/v10/users/@me/channels"
MsgUrl(channel_id) == "https://discord.com/api/v10/channels/" \o channel_id \o "/messages"

(***************************************************************************)
(* Python values: None is the empty tuple; a dict with string keys is a    *)
(* record, a missing key a name outside its DOMAIN.                        *)
(***************************************************************************)
None == <<>>
IsNone(x) == DOMAIN x = {}
HasKey(d, k) == k \in DOMAIN d
Get(d, k, default) == IF k \in DOMAIN d THEN d[k] ELSE default
SetKey(d, k, v) == [x \in DOMAIN d \cup {k} |-> IF x = k THEN v ELSE d[x]]

(***************************************************************************)
(* The inputs of a run: the command line, the environment and the event    *)
(* file.                                                                   *)
(***************************************************************************)
MaxBodyParts == 2

Users == {"alice", "bob", "carol"}

FullMapB64 == "eyJhbGljZSI6IjExMSIsImJvYiI6IjIyMiIsImNhcm9sIjoiMzMzIn0="
AliceMapB64 == "eyJhbGljZSI6ICIxMTEifQ=="

\* --mapping-b64 values: two maps, an unmapped "bob": "", the JSON texts {} and
\* [], text that is no JSON, base64 with a dangling character, bytes that are
\* no UTF-8, and the empty string
MappingValues ==
    {FullMapB64, AliceMapB64, "eyJhbGljZSI6ICIxMTEiLCAiYm9iIjogIiJ9", "e30=", "W10=",
     "bm90IGpzb24=", "e30=x", "/w==", ""}

\* command lines parse_args accepts: the option and its value, "=" between
\* them, an abbreviation of the option, and the option given twice
Argvs ==
    {<<>>} \cup {<<"--mapping-b64", m>> : m \in MappingValues}
        \cup {<<"--mapping-b64=" \o AliceMapB64>>, <<"--map", FullMapB64>>,
              <<"--mapping-b64", "e30=", "--mapping-b64", AliceMapB64>>,
              <<"--mapping-b64=--">>}

\* command lines parse_args ends the process on: no value, a value that reads
\* as an option, a positional argument, an unknown option, an ambiguous
\* abbreviation, and the help
RejectedArgvs ==
    {<<"--mapping-b64">>, <<"--mapping-b64", "-x">>, <<FullMapB64>>,
     <<"--mapping-b64", AliceMapB64, "--verbose">>, <<"--=x">>, <<"-h">>,
     <<"--mapping-b64", "e30=", "--help">>}

\* the command lines every event is run with
MainArgvs ==
    {<<>>} \cup {<<"--mapping-b64", m>> : m \in {FullMapB64, AliceMapB64}}

\* DISCORD_BOT_TOKEN: unset, blank, or a token with whitespace around it
Tokens == {<<>>, <<" ">>, <<" tok\n">>}

Account(login) == [login |-> login, avatar_url |-> "https://avatars.example/" \o login]
Repository == [full_name |-> "PardoBros/core-infra"]

PullRequest(author) ==
    [title |-> "Fix the build", html_url |-> "https://github.example/pull/7",
     user |-> Account(author), head |-> [ref |-> "feature"], base |-> [ref |-> "main"]]

PullRequestPayloads ==
    LET base(action, s, pr) ==
            [action |-> action, pull_request |-> pr, repository |-> Repository,
             sender |-> Account(s)]
    IN  UNION {
          {base("closed", s, PullRequest(a)) : s \in Users, a \in Users},
          {base("closed", s, [merged |-> m] @@ PullRequest(a)) :
              s \in Users, a \in Users, m \in BOOLEAN},
          {base("opened", s, PullRequest(s)) : s \in Users},
          {base("review_requested", s, PullRequest(a)) : s \in Users, a \in Users},
          {[requested_reviewer |-> Account(r)] @@ base("review_requested", s, PullRequest(a)) :
              s \in Users, a \in Users, r \in Users},
          {base("assigned", s, PullRequest(a)) : s \in Users, a \in Users},
          {[assignee |-> None] @@ base("assigned", s, PullRequest(a)) :
              s \in Users, a \in Users},
          {[assignee |-> Account(r)] @@ base("assigned", s, PullRequest(a)) :
              s \in Users, a \in Users, r \in Users} }

Verdicts == {"approved", "changes_requested", "commented", "APPROVED", "dismissed"}

ReviewPayloads ==
    {[action |-> "submitted", pull_request |-> PullRequest(a), repository |-> Repository,
      sender |-> Account(s),
      review |-> [html_url |-> "https://github.example/pull/7#review-1",
                  user |-> Account(s), state |-> v]] :
        s \in Users, a \in Users, v \in Verdicts}

\* Comment bodies: up to MaxBodyParts fragments one after the other, and one
\* body longer than the preview
Fragments == {"@alice", "@bob", "-x @"}
RECURSIVE BodiesOf(_)
BodiesOf(n) ==
    IF n = 0 THEN {""}
    ELSE LET shorter == BodiesOf(n - 1)
         IN  shorter \cup {b \o f : b \in shorter, f \in Fragments}
LongBody ==
    "review review review review review review review review review review review review review review review review review review review review review review review review review review review review r@bob"
Bodies == BodiesOf(MaxBodyParts) \cup {LongBody}

Comment(s, body) ==
    [html_url |-> "https://github.example/pull/7#comment-1", user |-> Account(s),
     body |-> body]

IssueCommentPayloads ==
    LET issue(a) == [title |-> "Fix the build", user |-> Account(a)]
        pull == [pull_request |-> [url |-> "https://api.github.example/pulls/7"]]
    IN  {[action |-> "created", issue |-> pull @@ issue(a), comment |-> Comment(s, b),
          repository |-> Repository, sender |-> Account(s)] :
            s \in Users, a \in Users, b \in Bodies}
        \cup
        {[action |-> "created", issue |-> issue(a), comment |-> Comment(s, "@alice"),
          repository |-> Repository, sender |-> Account(s)] : s \in Users, a \in Users}

ReviewCommentPayloads ==
    {[action |-> "created", pull_request |-> PullRequest(a), comment |-> Comment(s, b),
      repository |-> Repository, sender |-> Account(s)] :
        s \in Users, a \in Users, b \in Bodies}

\* GITHUB_EVENT_NAME with the payload of the event file
Events ==
    UNION {
      {[name |-> <<"pull_request">>, payload |-> e] : e \in PullRequestPayloads},
      {[name |-> <<"pull_request_review">>, payload |-> e] : e \in ReviewPayloads},
      {[name |-> <<"issue_comment">>, payload |-> e] : e \in IssueCommentPayloads},
      {[name |-> <<"pull_request_review_comment">>, payload |-> e] :
          e \in ReviewCommentPayloads},
      {[name |-> n, payload |-> [ref |-> "refs/heads/main", repository |-> Repository,
                                 sender |-> Account("alice")]] : n \in {<<"push">>, <<>>}} }

\* The event file: missing, not JSON, or holding a payload
MissingFile == [exists |-> FALSE, parses |-> FALSE, json |-> None]
BrokenFile == [exists |-> TRUE, parses |-> FALSE, json |-> None]
EventFile(e) == [exists |-> TRUE, parses |-> TRUE, json |-> e]

\* os.environ: the variables that are set
Environ(path, name, token) ==
    [v \in (IF path THEN {"GITHUB_EVENT_PATH"} ELSE {})
            \cup (IF name # <<>> THEN {"GITHUB_EVENT_NAME"} ELSE {})
            \cup (IF token # <<>> THEN {"DISCORD_BOT_TOKEN"} ELSE {}) |->
        CASE v = "GITHUB_EVENT_PATH" -> "/github/workflow/event.json"
          [] v = "GITHUB_EVENT_NAME" -> name[1]
          [] OTHER -> token[1]]

\* The mapping in an environment variable, which the script never reads
WithMappingEnv(env) == [USER_MAPPING_B64 |-> FullMapB64] @@ env

\* Every event is run with the main command lines, with and without a token;
\* every command line and token is run with the closing of a pull request.
ClosedEvents == {e \in Events : e.name = <<"pull_request">> /\ e.payload.action = "closed"}

Runs ==
    UNION {
      {[argv |-> a, environ |-> Environ(FALSE, <<"pull_request">>, <<" tok\n">>),
        file |-> f] : a \in Argvs \cup RejectedArgvs, f \in {MissingFile}},
      {[argv |-> a, environ |-> Environ(TRUE, <<"pull_request">>, <<" tok\n">>), file |-> f] :
          a \in Argvs, f \in {MissingFile, BrokenFile}},
      {[argv |-> a, environ |-> Environ(TRUE, e.name, t), file |-> EventFile(e.payload)] :
          a \in MainArgvs, e \in Events, t \in {<<>>, <<" tok\n">>}},
      {[argv |-> a, environ |-> Environ(TRUE, e.name, t), file |-> EventFile(e.payload)] :
          a \in Argvs \cup RejectedArgvs, e \in ClosedEvents, t \in Tokens},
      {[argv |-> <<>>, environ |-> WithMappingEnv(Environ(TRUE, e.name, <<" tok\n">>)),
        file |-> EventFile(e.payload)] : e \in ClosedEvents} }

(***************************************************************************)
(* The state of a run                                                      *)
(***************************************************************************)
VARIABLES
    argv,           \* sys.argv[1:]
    environ,        \* os.environ
    event_file,     \* the file GITHUB_EVENT_PATH names
    pc,             \* where the run is
    exit_status,    \* {} while running, then the process's exit status
    user_map,       \* main: user_map
    event,          \* main: event
    data,           \* main: data
    embed,          \* main: embed
    recipients,     \* main: recipients
    todo,           \* what the for loop over unique_recipients has not visited
    dm,             \* send_dm: its arguments user_id and embed
    channel_id,     \* send_dm: channel_id
    attempts,       \* the calls of send_dm so far
    calls           \* the HTTP requests so far, each with its result

vars ==
    <<argv, environ, event_file, pc, exit_status, user_map, event, data, embed,
      recipients, todo, dm, channel_id, attempts, calls>>

inputs == <<argv, environ, event_file>>

Init ==
    /\ \E run \in Runs :
          /\ argv = run.argv
          /\ environ = run.environ
          /\ event_file = run.file
    /\ pc = "load_mapping"
    /\ exit_status = {}
    /\ user_map = JObj(<<>>)
    /\ event = None
    /\ data = None
    /\ embed = None
    /\ recipients = <<>>
    /\ todo = {}
    /\ dm = None
    /\ channel_id = ""
    /\ attempts = <<>>
    /\ calls = <<>>

(***************************************************************************)
(* parser.parse_args() of argparse (CPython 3.11) for this parser: the       *)
(* options are -h, --help and --mapping-b64, and there is no positional.   *)
(***************************************************************************)
OptionStrings == <<"-h", "--help", "--mapping-b64">>
ActionOf(option_string) == IF option_string = "--mapping-b64" THEN "store" ELSE "help"

HasPrefix(s, prefix) == Len(prefix) <= Len(s) /\ SubSeq(s, 1, Len(prefix)) = prefix

\* str.split('=', 1)
BeforeEquals(s) == SubSeq(s, 1, IndexIn("=", s) - 1)
AfterEquals(s) == SubSeq(s, IndexIn("=", s) + 1, Len(s))

\* _negative_number_matcher: ^-\d+$|^-\d*\.\d+$ ($ also matches before a
\* final newline)
AllDigits(s) == \A i \in 1..Len(s) : IsDigit(Char(s, i))
NegativeNumberText(s) ==
    /\ Len(s) >= 2
    /\ Char(s, 1) = "-"
    /\ LET rest == SubSeq(s, 2, Len(s))
           dot == IndexIn(".", rest)
       IN  \/ AllDigits(rest)
           \/ /\ dot > 0
              /\ dot < Len(rest)
              /\ AllDigits(SubSeq(rest, 1, dot - 1))
              /\ AllDigits(SubSeq(rest, dot + 1, Len(rest)))
NegativeNumber(s) ==
    \/ NegativeNumberText(s)
    \/ Len(s) >= 1 /\ Char(s, Len(s)) = "\n" /\ NegativeNumberText(SubSeq(s, 1, Len(s) - 1))

\* what _parse_optional returns: None for a positional, or the tuple (action,
\* option_string, explicit_arg); "ambiguous" stands for its call of error()
Positional == [kind |-> "A"]
Ambiguous == [kind |-> "ambiguous"]
OptionTuple(action, option_string, explicit_arg) ==
    [kind |-> "O", action |-> action, option_string |-> option_string,
     explicit_arg |-> explicit_arg]

\* _get_option_tuples: the options a string abbreviates
GetOptionTuples(s) ==
    IF Char(s, 2) = "-"
    THEN LET has_equals == IndexIn("=", s) > 0
             option_prefix == IF has_equals THEN BeforeEquals(s) ELSE s
             explicit_arg == IF has_equals THEN <<AfterEquals(s)>> ELSE None
             found == SelectSeq(OptionStrings, LAMBDA o : HasPrefix(o, option_prefix))
         IN  [n \in 1..Len(found) |-> OptionTuple(ActionOf(found[n]), found[n], explicit_arg)]
    ELSE LET found == SelectSeq(OptionStrings,
                                LAMBDA o : o = SubSeq(s, 1, 2) \/ HasPrefix(o, s))
         IN  [n \in 1..Len(found) |->
                 OptionTuple(ActionOf(found[n]), found[n],
                             IF found[n] = SubSeq(s, 1, 2) THEN <<SubSeq(s, 3, Len(s))>>
                             ELSE None)]

ParseOptional(s) ==
    IF s = "" THEN Positional
    ELSE IF Char(s, 1) # "-" THEN Positional
    ELSE IF s \in Range(OptionStrings) THEN OptionTuple(ActionOf(s), s, None)
    ELSE IF Len(s) = 1 THEN Positional
    ELSE IF IndexIn("=", s) > 0 /\ BeforeEquals(s) \in Range(OptionStrings)
    THEN OptionTuple(ActionOf(BeforeEquals(s)), BeforeEquals(s), <<AfterEquals(s)>>)
    ELSE LET option_tuples == GetOptionTuples(s)
         IN  IF Len(option_tuples) > 1 THEN Ambiguous
             ELSE IF Len(option_tuples) = 1 THEN option_tuples[1]
             ELSE IF NegativeNumber(s) THEN Positional
             ELSE IF \E i \in 1..Len(s) : Char(s, i) = " " THEN Positional
             ELSE OptionTuple("none", s, None)

\* the first "--" of the command line: everything after it is an argument
DoubleDash(av) ==
    IF \E i \in 1..Len(av) : av[i] = "--"
    THEN CHOOSE i \in 1..Len(av) : av[i] = "--" /\ \A j \in 1..(i - 1) : av[j] # "--"
    ELSE Len(av) + 1

\* arg_strings_pattern: "O" for an option, "A" for an argument, "-" for "--"
ArgStringsPattern(av) ==
    [i \in 1..Len(av) |->
        IF i = DoubleDash(av) THEN "-"
        ELSE IF i > DoubleDash(av) THEN "A"
        ELSE IF ParseOptional(av[i]).kind = "A" THEN "A" ELSE "O"]

\* _get_values for --mapping-b64: a first "--" is removed from the argument
\* strings, and what is left when nothing is left is the empty list
GetValues(arg_string) == IF arg_string = "--" THEN JArr(<<>>) ELSE JStr(arg_string)

\* what parse_args gives: the namespace, or the status the parser exits with
Namespace(mapping_b64) == [exits |-> {}, mapping_b64 |-> mapping_b64]
ParserExit(status) == [exits |-> {status}, mapping_b64 |-> None]

\* -h with text glued to it: the text is read as more single-dash flags
CombinedFlags(explicit_arg) ==
    explicit_arg # "" /\ \A i \in 1..Len(explicit_arg) : Char(explicit_arg, i) = "h"

\* the loop of _parse_known_args from argument i on: mapping_b64 is the value
\* stored so far, extras the strings nothing has consumed
RECURSIVE ConsumeFrom(_, _, _, _)
ConsumeFrom(av, i, mapping_b64, extras) ==
    IF i > Len(av)
    THEN IF extras # <<>> THEN ParserExit(2) ELSE Namespace(mapping_b64)
    ELSE IF ArgStringsPattern(av)[i] # "O"
    THEN ConsumeFrom(av, i + 1, mapping_b64, Append(extras, av[i]))
    ELSE LET opt == ParseOptional(av[i])
         IN  IF opt.action = "none"
             THEN ConsumeFrom(av, i + 1, mapping_b64, Append(extras, av[i]))
             ELSE IF opt.action = "help"
             THEN IF IsNone(opt.explicit_arg) THEN ParserExit(0)
                  ELSE IF opt.option_string = "-h" /\ CombinedFlags(opt.explicit_arg[1])
                  THEN ParserExit(0)
                  ELSE ParserExit(2)
             ELSE IF ~IsNone(opt.explicit_arg)
             THEN ConsumeFrom(av, i + 1, GetValues(opt.explicit_arg[1]), extras)
             ELSE IF i < Len(av) /\ ArgStringsPattern(av)[i + 1] = "A"
             THEN ConsumeFrom(av, i + 2, GetValues(av[i + 1]), extras)
             ELSE ParserExit(2)

\* parser.parse_args(): args.mapping_b64 is None, a string or the empty list
ParseArgs(av) ==
    IF \E i \in 1..(DoubleDash(av) - 1) : ParseOptional(av[i]).kind = "ambiguous"
    THEN ParserExit(2)
    ELSE ConsumeFrom(av, 1, None, <<>>)

\* json.loads(base64.b64decode(text).decode("utf-8")); any exception leaves {}
DecodeMapping(text) ==
    LET bytes == B64Decode(text)
        decoded_json == Utf8Decode(bytes.v)
        loaded == JsonLoads(decoded_json.v)
    IN  IF bytes.ok /\ decoded_json.ok /\ loaded.ok THEN loaded.v ELSE JObj(<<>>)

LoadUserMap(args) ==
    IF ~IsNone(args.mapping_b64) /\ Truthy(args.mapping_b64)
    THEN DecodeMapping(args.mapping_b64.v)
    ELSE JObj(<<>>)

\* parse_args prints the usage and ends the process: status 2 for a command
\* line it rejects, 0 for the help
ParseArgsExit ==
    /\ pc = "load_mapping"
    /\ ParseArgs(argv).exits # {}
    /\ pc' = "exit"
    /\ exit_status' = ParseArgs(argv).exits
    /\ UNCHANGED <<inputs, user_map, event, data, embed, recipients, todo, dm,
                   channel_id, attempts, calls>>

LoadMapping ==
    /\ pc = "load_mapping"
    /\ ParseArgs(argv).exits = {}
    /\ user_map' = LoadUserMap(ParseArgs(argv))
    /\ pc' = "load_event"
    /\ UNCHANGED <<inputs, exit_status, event, data, embed, recipients, todo, dm,
                   channel_id, attempts, calls>>

(***************************************************************************)
(* main: the mapping and the event                                         *)
(***************************************************************************)
\* the process ends: return from main or exit(0) give 0, an uncaught exception 1
\* (the exits of parse_args are ParseArgsExit)
Exit(status) ==
    /\ pc' = "exit"
    /\ exit_status' = {status}

EventPathUnset ==
    /\ pc = "load_event"
    /\ "GITHUB_EVENT_PATH" \notin DOMAIN environ
    /\ Exit(0)
    /\ UNCHANGED <<inputs, user_map, event, data, embed, recipients, todo, dm,
                   channel_id, attempts, calls>>

\* open() or json.load() raises, and nothing catches it
EventFileError ==
    /\ pc = "load_event"
    /\ "GITHUB_EVENT_PATH" \in DOMAIN environ
    /\ ~(event_file.exists /\ event_file.parses)
    /\ Exit(1)
    /\ UNCHANGED <<inputs, user_map, event, data, embed, recipients, todo, dm,
                   channel_id, attempts, calls>>

LoadEvent ==
    /\ pc = "load_event"
    /\ "GITHUB_EVENT_PATH" \in DOMAIN environ
    /\ event_file.exists /\ event_file.parses
    /\ event' = event_file.json
    /\ pc' = "context"
    /\ UNCHANGED <<inputs, exit_status, user_map, data, embed, recipients, todo, dm,
                   channel_id, attempts, calls>>

event_name == Get(environ, "GITHUB_EVENT_NAME", "unknown")

(***************************************************************************)
(* main: the context record                                                *)
(***************************************************************************)
PrContext(ev) ==
    LET pr == ev.pull_request
    IN  [type |-> "pr", title |-> pr.title, url |-> pr.html_url,
         repo |-> ev.repository.full_name, sender |-> ev.sender.login,
         avatar |-> ev.sender.avatar_url, author |-> pr.user.login,
         head |-> pr.head.ref, base |-> pr.base.ref,
         merged |-> Get(pr, "merged", FALSE)]

ReviewContext(ev) ==
    LET pr == ev.pull_request
        review == ev.review
    IN  [type |-> "review_submit", title |-> pr.title, url |-> review.html_url,
         repo |-> ev.repository.full_name, sender |-> review.user.login,
         avatar |-> review.user.avatar_url, author |-> pr.user.login,
         head |-> pr.head.ref, base |-> pr.base.ref, state |-> Lower(review.state)]

CommentContext(ev) ==
    LET comment == ev.comment
        pr_source == IF HasKey(ev, "pull_request") THEN ev.pull_request ELSE ev.issue
    IN  [type |-> "comment", title |-> pr_source.title, url |-> comment.html_url,
         repo |-> ev.repository.full_name, sender |-> comment.user.login,
         avatar |-> comment.user.avatar_url, author |-> pr_source.user.login,
         head |-> "", base |-> "", body |-> comment.body]

\* the two exit(0) of the context step
IssueIsNoPullRequest(name, ev) ==
    name = "issue_comment" /\ ~HasKey(ev.issue, "pull_request")
IsCommentEvent(name) == name \in {"issue_comment", "pull_request_review_comment"}
Unsupported(name) ==
    name \notin {"pull_request", "pull_request_review"} /\ ~IsCommentEvent(name)

Context(name, ev) ==
    CASE name = "pull_request" -> PrContext(ev)
      [] name = "pull_request_review" -> ReviewContext(ev)
      [] OTHER -> CommentContext(ev)

BuildContext ==
    /\ pc = "context"
    /\ ~Unsupported(event_name)
    /\ ~(IsCommentEvent(event_name) /\ IssueIsNoPullRequest(event_name, event))
    /\ data' = Context(event_name, event)
    /\ pc' = "embed"
    /\ UNCHANGED <<inputs, exit_status, user_map, event, embed, recipients, todo, dm,
                   channel_id, attempts, calls>>

SkipEvent ==
    /\ pc = "context"
    /\ \/ Unsupported(event_name)
       \/ IsCommentEvent(event_name) /\ IssueIsNoPullRequest(event_name, event)
    /\ Exit(0)
    /\ UNCHANGED <<inputs, user_map, event, data, embed, recipients, todo, dm,
                   channel_id, attempts, calls>>

(***************************************************************************)
(* main: the embed and the rules.  The script's emoji, arrow and grave     *)
(* accents cannot appear in a TLA+ string: field names and descriptions    *)
(* are written without the emoji, the branch arrow as "->" and the grave   *)
(* accent as an apostrophe.                                                *)
(***************************************************************************)
Field(name, value, inline) == [name |-> name, value |-> value, inline |-> inline]
AddField(e, f) == [e EXCEPT !.fields = Append(@, f)]

BranchField(d) == Field("Branch", "'" \o d.head \o "' -> '" \o d.base \o "'", TRUE)

InitialEmbed(d, name) ==
    LET e == [title |-> d.title, url |-> d.url,
              author |-> [name |-> d.sender \o " (" \o Title(ReplaceUnderscores(name)) \o ")",
                          icon_url |-> d.avatar],
              fields |-> <<Field("Repo", d.repo, TRUE), Field("Author", d.author, TRUE)>>,
              footer |-> [text |-> "GitHub Notification"]]
    IN  IF d.head # "" THEN AddField(e, BranchField(d)) ELSE e

BuildEmbed ==
    /\ pc = "embed"
    /\ recipients' = <<>>
    /\ embed' = InitialEmbed(data, event_name)
    /\ pc' = "rules"
    /\ UNCHANGED <<inputs, exit_status, user_map, event, data, todo, dm, channel_id,
                   attempts, calls>>

Notify(to, e, color, description) ==
    [recipients |-> to, embed |-> SetKey(SetKey(e, "color", color), "description", description)]
NoRule(e) == [recipients |-> <<>>, embed |-> e]

\* mutant: every verdict, commented too, notifies the author
ReviewRuleAnyVerdict(d, e) ==
    Notify(<<d.author>>, AddField(e, Field("Reviewer", "Reviewed by " \o d.sender, FALSE)),
           COLORS.INFO, "**PR Reviewed**")

\* 1. PR approved / changes requested
ReviewRule(d, e) ==
    CASE d.state = "approved" ->
            Notify(<<d.author>>,
                   AddField(e, Field("Reviewer", "Approved by " \o d.sender, FALSE)),
                   COLORS.APPROVED, "**PR Approved!**")
      [] d.state = "changes_requested" ->
            Notify(<<d.author>>,
                   AddField(e, Field("Reviewer", d.sender \o " requested changes.", FALSE)),
                   COLORS.CHANGES, "**Changes Requested**")
      [] OTHER -> NoRule(e)

\* 2. review requested
ReviewRequestedRule(ev, e) ==
    IF HasKey(ev, "requested_reviewer")
    THEN Notify(<<ev.requested_reviewer.login>>, e, COLORS.INFO,
                "**Review Requested**\nYou were requested to review this PR.")
    ELSE NoRule(e)

\* 3. assigned
AssignedRule(ev, e) ==
    IF HasKey(ev, "assignee") /\ ~IsNone(ev.assignee)
    THEN Notify(<<ev.assignee.login>>, e, COLORS.INFO, "**Assigned to You**")
    ELSE NoRule(e)

\* mutants: the author is notified of their own closing; the colour ignores
\* the merge
ClosedRecipientsAlways(d) == <<d.author>>
ClosedColorAlwaysClosed(d) == COLORS.CLOSED

\* 4. closed / merged
ClosedRecipients(d) == IF d.author # d.sender THEN <<d.author>> ELSE <<>>
ClosedColor(d) == IF d.merged THEN COLORS.MERGED ELSE COLORS.CLOSED
ClosedDescription(d) ==
    IF d.merged THEN "**Your PR was Merged!**" ELSE "**Your PR was Closed** (Unmerged)"
ClosedRule(d, e) == Notify(ClosedRecipients(d), e, ClosedColor(d), ClosedDescription(d))

\* re.findall(r"@([a-zA-Z0-9-]+)", body): the matches left to right.  A match
\* starts at every "@" that a character of the class follows (no "@" lies inside
\* an earlier match, since "@" is not in the class) and takes the longest run.
IsHandleChar(c) == IsLower(c) \/ IsUpper(c) \/ IsDigit(c) \/ c = "-"
NotHandleChar(c) == ~IsHandleChar(c)

\* mutant: re.search instead of re.findall, the first match only
FindMentionsFirstOnly(body) ==
    LET starts == {i \in 1..(Len(body) - 1) :
                      Char(body, i) = "@" /\ IsHandleChar(Char(body, i + 1))}
        at == SortedSeq(starts)
    IN  [k \in 1..(IF Len(at) > 0 THEN 1 ELSE 0) |->
            SubSeq(body, at[k] + 1, FirstAt(body, at[k] + 1, NotHandleChar) - 1)]

FindMentions(body) ==
    LET starts == {i \in 1..(Len(body) - 1) :
                      Char(body, i) = "@" /\ IsHandleChar(Char(body, i + 1))}
        at == SortedSeq(starts)
    IN  [k \in 1..Len(at) |->
            SubSeq(body, at[k] + 1, FirstAt(body, at[k] + 1, NotHandleChar) - 1)]

BodyPreview(body) ==
    IF Len(body) > PreviewLen THEN SubSeq(body, 1, PreviewLen) \o "..." ELSE body

\* 5. comments
CommentRecipients(d) ==
    (IF d.author # d.sender THEN <<d.author>> ELSE <<>>) \o FindMentions(d.body)
CommentRule(d, e) ==
    Notify(CommentRecipients(d),
           AddField(e, Field("Message", BodyPreview(d.body), FALSE)),
           COLORS.COMMENT, "**New Comment**")

\* the if / elif chain of the rules; action is event.get("action")
Rules(name, ev, d, e) ==
    IF name = "pull_request_review" THEN ReviewRule(d, e)
    ELSE IF name = "pull_request" /\ ev.action = "review_requested"
    THEN ReviewRequestedRule(ev, e)
    ELSE IF name = "pull_request" /\ ev.action = "assigned" THEN AssignedRule(ev, e)
    ELSE IF name = "pull_request" /\ ev.action = "closed" THEN ClosedRule(d, e)
    ELSE IF Get(d, "type", "") = "comment" THEN CommentRule(d, e)
    ELSE NoRule(e)

\* list(set(recipients)): the usernames, each once, in no particular order
Unique(list) == Range(list)

ApplyRules ==
    /\ pc = "rules"
    /\ LET r == Rules(event_name, event, data, embed)
       IN  /\ recipients' = recipients \o r.recipients
           /\ embed' = r.embed
           /\ todo' = Unique(recipients \o r.recipients)
    /\ pc' = "send"
    /\ UNCHANGED <<inputs, exit_status, user_map, event, data, dm, channel_id,
                   attempts, calls>>

(***************************************************************************)
(* main: the loop over unique_recipients.  The order of list(set(...)) is  *)
(* not fixed: the loop may take any username it has not visited.           *)
(***************************************************************************)
\* mutant: the loop does not skip the sender
IsSelfNever(gh_user, d) == FALSE

\* "Don't DM yourself"
IsSelf(gh_user, d) == gh_user = d.sender

\* user_map.get(gh_user); only a dict has get
HasGet(map) == map.t = "obj"
DiscordId(map, gh_user) == PairsGet(map.v, gh_user)

\* mutant: the embed is personalised for each recipient
SendDmCallPersonalised(gh_user, discord_id, e) ==
    [gh_user |-> gh_user, user_id |-> discord_id,
     embed |-> [e EXCEPT !.footer = [text |-> "for " \o gh_user]]]

\* send_dm(discord_id, embed)
SendDmCall(gh_user, discord_id, e) ==
    [gh_user |-> gh_user, user_id |-> discord_id, embed |-> e]

SkipSelf ==
    /\ pc = "send"
    /\ \E gh_user \in todo :
          /\ IsSelf(gh_user, data)
          /\ todo' = todo \ {gh_user}
    /\ UNCHANGED <<inputs, pc, exit_status, user_map, event, data, embed, recipients, dm,
                   channel_id, attempts, calls>>

\* user_map is JSON but no object: user_map.get raises AttributeError
LookupError ==
    /\ pc = "send"
    /\ \E gh_user \in todo :
          /\ ~IsSelf(gh_user, data)
          /\ ~HasGet(user_map)
          /\ todo' = todo \ {gh_user}
    /\ Exit(1)
    /\ UNCHANGED <<inputs, user_map, event, data, embed, recipients, dm, channel_id,
                   attempts, calls>>

SkipUnmapped ==
    /\ pc = "send"
    /\ \E gh_user \in todo :
          /\ ~IsSelf(gh_user, data)
          /\ HasGet(user_map)
          /\ ~Truthy(DiscordId(user_map, gh_user))
          /\ todo' = todo \ {gh_user}
    /\ UNCHANGED <<inputs, pc, exit_status, user_map, event, data, embed, recipients, dm,
                   channel_id, attempts, calls>>

CallSendDm ==
    /\ pc = "send"
    /\ \E gh_user \in todo :
          /\ ~IsSelf(gh_user, data)
          /\ HasGet(user_map)
          /\ Truthy(DiscordId(user_map, gh_user))
          /\ todo' = todo \ {gh_user}
          /\ dm' = SendDmCall(gh_user, DiscordId(user_map, gh_user), embed)
          /\ attempts' = Append(attempts, SendDmCall(gh_user, DiscordId(user_map, gh_user), embed))
    /\ pc' = "send_dm"
    /\ UNCHANGED <<inputs, exit_status, user_map, event, data, embed, recipients,
                   channel_id, calls>>

Finish ==
    /\ pc = "send"
    /\ todo = {}
    /\ Exit(0)
    /\ UNCHANGED <<inputs, user_map, event, data, embed, recipients, todo, dm, channel_id,
                   attempts, calls>>

(***************************************************************************)
(* send_dm.  An HTTP request is appended to calls as pending when urlopen  *)
(* is entered and gets its result when urlopen returns or raises.          *)
(***************************************************************************)
Token == Strip(Get(environ, "DISCORD_BOT_TOKEN", ""))
Headers ==
    [Authorization |-> "Bot " \o Token, ContentType |-> "application/json",
     UserAgent |-> "GitHub-Actions-Bot/1.0"]

\* what the remote side can answer
ChannelIds == {"7001", "7002"}
OpenFailures == {"URLError", "HTTPError", "malformed body"}
PostFailures == {"URLError", "HTTPError"}

Request(url, body) ==
    [attempt |-> Len(attempts), url |-> url, headers |-> Headers, data |-> body,
     result |-> "pending"]
Payload(e) == [embeds |-> <<e>>]

\* mutants: the exception of the channel request is not caught and ends the
\* process; a failed message request is made again
AfterOpenErrorRaises == "exit"
AfterPostErrorRetries == "post"

\* where send_dm goes after an except clause: it returns to the loop
AfterOpenError == "send"
AfterPostError == "send"

Answer(result) == [calls EXCEPT ![Len(calls)].result = result]

MissingToken ==
    /\ pc = "send_dm"
    /\ Token = "" \/ ~Truthy(dm.user_id)
    /\ pc' = "send"
    /\ UNCHANGED <<inputs, exit_status, user_map, event, data, embed, recipients, todo,
                   dm, channel_id, attempts, calls>>

OpenRequest ==
    /\ pc = "send_dm"
    /\ ~(Token = "" \/ ~Truthy(dm.user_id))
    /\ calls' = Append(calls, Request(DmUrl, [recipient_id |-> dm.user_id]))
    /\ pc' = "open"
    /\ UNCHANGED <<inputs, exit_status, user_map, event, data, embed, recipients, todo,
                   dm, channel_id, attempts>>

OpenOk ==
    /\ pc = "open"
    /\ \E id \in ChannelIds :
          /\ channel_id' = id
          /\ calls' = Answer(id)
    /\ pc' = "post"
    /\ UNCHANGED <<inputs, exit_status, user_map, event, data, embed, recipients, todo,
                   dm, attempts>>

OpenError ==
    /\ pc = "open"
    /\ \E e \in OpenFailures : calls' = Answer(e)
    /\ pc' = AfterOpenError
    /\ UNCHANGED <<inputs, exit_status, user_map, event, data, embed, recipients, todo,
                   dm, channel_id, attempts>>

PostRequest ==
    /\ pc = "post"
    /\ calls' = Append(calls, Request(MsgUrl(channel_id), Payload(dm.embed)))
    /\ pc' = "posting"
    /\ UNCHANGED <<inputs, exit_status, user_map, event, data, embed, recipients, todo,
                   dm, channel_id, attempts>>

PostOk ==
    /\ pc = "posting"
    /\ calls' = Answer("ok")
    /\ pc' = "send"
    /\ UNCHANGED <<inputs, exit_status, user_map, event, data, embed, recipients, todo,
                   dm, channel_id, attempts>>

PostError ==
    /\ pc = "posting"
    /\ \E e \in PostFailures : calls' = Answer(e)
    /\ pc' = AfterPostError
    /\ UNCHANGED <<inputs, exit_status, user_map, event, data, embed, recipients, todo,
                   dm, channel_id, attempts>>

(***************************************************************************)
(* The run                                                                 *)
(***************************************************************************)
Next ==
    \/ ParseArgsExit
    \/ LoadMapping
    \/ EventPathUnset
    \/ EventFileError
    \/ LoadEvent
    \/ BuildContext
    \/ SkipEvent
    \/ BuildEmbed
    \/ ApplyRules
    \/ SkipSelf
    \/ LookupError
    \/ SkipUnmapped
    \/ CallSendDm
    \/ Finish
    \/ MissingToken
    \/ OpenRequest
    \/ OpenOk
    \/ OpenError
    \/ PostRequest
    \/ PostOk
    \/ PostError

Spec == Init /\ [][Next]_vars

(***************************************************************************)
(* Properties                                                              *)
(***************************************************************************)
\* the rules have run: the embed and the recipients are final
RulesApplied ==
    pc \in {"send", "send_dm", "open", "post", "posting"} \/ (pc = "exit" /\ ~IsNone(embed))

Mapped(gh_user) == HasGet(user_map) /\ Truthy(DiscordId(user_map, gh_user))
AttemptedFor(gh_user) == \E i \in 1..Len(attempts) : attempts[i].gh_user = gh_user

IsOpen(c) == c.url = DmUrl
IsPost(c) == c.url # DmUrl
Failed(c) == c.result \in OpenFailures \cup PostFailures

\* C1: no call of send_dm is ever made for the username of the triggering
\* actor, whatever the rules put in the recipient list.
SenderNeverMessaged ==
    \A i \in 1..Len(attempts) : attempts[i].gh_user # data.sender

\* C1 witness: the run has ended, the sender was among the recipients and has
\* an identifier in the map, and somebody else was messaged.
SenderListedAndOthersMessaged ==
    /\ pc = "exit"
    /\ attempts # <<>>
    /\ data.sender \in Range(recipients)
    /\ Mapped(data.sender)

\* C2: a failed delivery, or a recipient without identifier, never stops the
\* run: the process ends with an error only before any delivery has begun, and
\* when the run has ended every recipient that is not the sender and has an
\* identifier in the map has had its call of send_dm.
FailuresDoNotStopDelivery ==
    /\ (exit_status \notin {{}, {0}} => (attempts = <<>> /\ calls = <<>>))
    /\ (pc = "exit" =>
          \A u \in Range(recipients) :
              (u # data.sender /\ Mapped(u)) => AttemptedFor(u))
    /\ (pc \in {"send", "send_dm", "open", "post", "posting"} =>
          \A u \in Range(recipients) :
              (u # data.sender /\ Mapped(u)) => (AttemptedFor(u) \/ u \in todo))

\* C2 witness: the run has ended, one recipient's request failed, and a later
\* recipient's request was made all the same.
DeliveredAfterFailure ==
    /\ pc = "exit"
    /\ \E i \in 1..Len(calls) : \E j \in 1..Len(calls) :
          /\ i < j
          /\ Failed(calls[i])
          /\ calls[i].attempt < calls[j].attempt

\* C3: per call of send_dm at most one channel request and at most one message
\* request; a message request directly follows the successful channel request
\* of the same call, is sent to the channel that request returned, and none
\* follows a failed channel request; requests of different recipients do not
\* interleave, and a request is made only when every earlier one has returned
\* or failed.
TwoSequentialCallsNoRetry ==
    /\ \A i \in 1..Len(calls) : \A j \in 1..Len(calls) :
          /\ (i < j) => calls[i].attempt <= calls[j].attempt
          /\ (i < j) => calls[i].result # "pending"
          /\ (i # j /\ calls[i].attempt = calls[j].attempt)
                => (IsOpen(calls[i]) # IsOpen(calls[j]))
    /\ \A i \in 1..Len(calls) :
          /\ calls[i].attempt \in 1..Len(attempts)
          /\ IsOpen(calls[i]) =>
                calls[i].data = [recipient_id |-> attempts[calls[i].attempt].user_id]
          /\ IsPost(calls[i]) =>
                /\ i > 1
                /\ IsOpen(calls[i - 1])
                /\ calls[i - 1].attempt = calls[i].attempt
                /\ calls[i - 1].result \in ChannelIds
                /\ calls[i].url = MsgUrl(calls[i - 1].result)

\* C3 witness: the run has ended after a channel request that failed, with no
\* message request behind it, and a later recipient's two requests.
FailedOpenThenFullDelivery ==
    /\ pc = "exit"
    /\ Len(calls) = 3
    /\ IsOpen(calls[1]) /\ Failed(calls[1])
    /\ IsOpen(calls[2]) /\ IsPost(calls[3]) /\ calls[3].result = "ok"

\* C4: every call of send_dm of a run gets the same embed, the one main holds,
\* and every message request carries exactly that embed.
SameEmbedForAll ==
    /\ \A i \in 1..Len(attempts) : attempts[i].embed = embed
    /\ \A i \in 1..Len(calls) :
          IsPost(calls[i]) => calls[i].data = [embeds |-> <<embed>>]

\* C4 witness: two recipients have been sent the embed.
TwoMessagesPosted ==
    /\ pc = "exit"
    /\ Len(attempts) = 2
    /\ Len(calls) = 4
    /\ calls[2].result = "ok" /\ calls[4].result = "ok"

\* C5: for a closed pull request the recipients are exactly the author when the
\* author is not the sender and nobody otherwise, and the colour is MERGED for
\* a merged pull request and CLOSED otherwise.
IsClosedEvent ==
    event_name = "pull_request" /\ ~IsNone(event) /\ event.action = "closed"

ClosedNotifiesAuthorOnly ==
    (IsClosedEvent /\ RulesApplied) =>
        /\ Range(recipients) =
              (IF event.pull_request.user.login # event.sender.login
               THEN {event.pull_request.user.login} ELSE {})
        /\ embed.color =
              (IF Get(event.pull_request, "merged", FALSE) THEN COLORS.MERGED ELSE COLORS.CLOSED)

\* C5 witness: a pull request closed unmerged by somebody else than its author,
\* who has been messaged.
ClosedByOtherDelivered ==
    /\ pc = "exit"
    /\ IsClosedEvent
    /\ event.pull_request.user.login # event.sender.login
    /\ ~Get(event.pull_request, "merged", FALSE)
    /\ Len(attempts) = 1

\* The run of C6: pull_request, closed, merged, author alice, sender bob, and
\* the identity map {"alice": "111"}.
AliceMergedByBob ==
    /\ IsClosedEvent
    /\ Get(event.pull_request, "merged", FALSE)
    /\ event.pull_request.user.login = "alice"
    /\ event.sender.login = "bob"
    /\ argv = <<"--mapping-b64", AliceMapB64>>

OneAttemptTo111 ==
    /\ Len(attempts) = 1
    /\ attempts[1].gh_user = "alice"
    /\ attempts[1].user_id = JStr("111")
    /\ attempts[1].embed.color = COLORS.MERGED

\* C6, as the claim states it: that run makes exactly one delivery attempt, to
\* 111, with the MERGED colour and the description "Your PR was Merged!".
MergedRunPlainDescription ==
    (AliceMergedByBob /\ pc = "exit") =>
        /\ OneAttemptTo111
        /\ attempts[1].embed.description = "Your PR was Merged!"

\* C6, amended: that run makes exactly one delivery attempt, to 111, with the
\* MERGED colour and the description "**Your PR was Merged!**", the text
\* between Markdown bold markers.
MergedRunBoldDescription ==
    /\ AliceMergedByBob => Len(attempts) <= 1
    /\ (AliceMergedByBob /\ pc = "exit") =>
          /\ OneAttemptTo111
          /\ attempts[1].embed.description = "**Your PR was Merged!**"

\* C6 witness: that run has ended and its message was posted.
MergedRunDelivered ==
    /\ AliceMergedByBob
    /\ pc = "exit"
    /\ Len(calls) = 2
    /\ calls[2].result = "ok"

\* C7: for a review, the verdicts approved and changes_requested make the
\* author the only recipient; the verdict commented gives no recipient, no
\* description and no delivery attempt.
IsReviewEvent == event_name = "pull_request_review" /\ ~IsNone(event)

ReviewVerdictRecipients ==
    /\ (IsReviewEvent /\ RulesApplied
            /\ event.review.state \in {"approved", "changes_requested"})
          => recipients = <<event.pull_request.user.login>>
    /\ (IsReviewEvent /\ event.review.state = "commented") =>
          /\ recipients = <<>>
          /\ attempts = <<>>
          /\ (~IsNone(embed) => ~HasKey(embed, "description"))

\* C7 witness: a commented review by somebody else than the author has run to
\* its end with the author in the map and a token set.
CommentedReviewEnded ==
    /\ pc = "exit"
    /\ IsReviewEvent
    /\ event.review.state = "commented"
    /\ event.pull_request.user.login # event.review.user.login
    /\ Mapped(event.pull_request.user.login)
    /\ Token # ""

\* C8: every early end of the run (event path unset, event file missing or
\* unparseable, unsupported event, issue comment on an issue that is no pull
\* request) makes no delivery attempt and ends the process with status 0.
\* These are the ends, after the command line has been accepted, before the
\* context record exists.
EarlyExitsAreClean ==
    (pc = "exit" /\ IsNone(data) /\ ParseArgs(argv).exits = {}) =>
        (exit_status = {0} /\ attempts = <<>>)

\* C9: the identity map comes from --mapping-b64 when it is given and from the
\* environment variable otherwise; without either, or when the text does not
\* decode, the run goes on with the empty map: whatever the string given
\* with the option, the run gets as far as reading the event.
ClaimedMappingText ==
    IF ~IsNone(ParseArgs(argv).mapping_b64)
    THEN (IF ParseArgs(argv).mapping_b64.t = "str" THEN ParseArgs(argv).mapping_b64.v ELSE "")
    ELSE Get(environ, "USER_MAPPING_B64", "")

MappingFromArgumentOrEnvironment ==
    /\ pc = "load_event" =>
          /\ exit_status = {}
          /\ user_map = (IF ClaimedMappingText = "" THEN JObj(<<>>)
                         ELSE DecodeMapping(ClaimedMappingText))
    /\ (Len(argv) = 2 /\ argv[1] = "--mapping-b64") => pc # "exit" \/ ~IsNone(event)

\* "@" followed by one or more letters, digits or hyphens, as many as there are
IsMention(body, i, j) ==
    /\ Char(body, i) = "@"
    /\ i < j
    /\ \A k \in (i + 1)..j : IsHandleChar(Char(body, k))
    /\ j = Len(body) \/ ~IsHandleChar(Char(body, j + 1))
Mentioned(body) ==
    LET ats == {k \in 1..Len(body) : Char(body, k) = "@"}
        ends == {k \in 2..Len(body) :
                    /\ IsHandleChar(Char(body, k))
                    /\ k = Len(body) \/ ~IsHandleChar(Char(body, k + 1))}
    IN  {SubSeq(body, p[1] + 1, p[2]) :
            p \in {q \in ats \X ends : IsMention(body, q[1], q[2])}}

IsPrComment ==
    /\ IsCommentEvent(event_name)
    /\ ~IsNone(event)
    /\ ~IssueIsNoPullRequest(event_name, event)

CommentAuthor ==
    IF HasKey(event, "pull_request") THEN event.pull_request.user.login
    ELSE event.issue.user.login

\* C10: for a comment on a pull request the recipients are the usernames
\* mentioned in the body together with the author when the author did not write
\* the comment, and no username gets more than one delivery attempt.
CommentRecipientsAreMentionsAndAuthor ==
    /\ (IsPrComment /\ RulesApplied) =>
          Range(recipients) =
              Mentioned(event.comment.body)
                  \cup (IF CommentAuthor # event.comment.user.login
                        THEN {CommentAuthor} ELSE {})
    /\ \A i \in 1..Len(attempts) : \A j \in 1..Len(attempts) :
          attempts[i].gh_user = attempts[j].gh_user => i = j
    /\ (IsPrComment /\ pc = "exit" /\ exit_status = {0}) =>
          \A u \in Range(recipients) :
              (u # event.comment.user.login /\ Mapped(u)) => AttemptedFor(u)

\* C10 witness: the author is mentioned twice in somebody else's comment and
\* has been messaged once.
AuthorMentionedTwice ==
    /\ pc = "exit"
    /\ IsPrComment
    /\ event.comment.body = "@alice@alice"
    /\ CommentAuthor = "alice"
    /\ Len(recipients) = 3
    /\ Len(attempts) = 1

=============================================================================
